---- MODULE Spec2Model ----
(***************************************************************************)
(* docs/conf.py of hsemulator: the documentation build declaration.        *)
(*                                                                         *)
(* The file is a Python module made of seven module-level assignments of   *)
(* literals.  The documentation generator loads it by executing the module *)
(* body in a namespace and reading the namespace afterwards.  The model    *)
(* follows the Python semantics of that execution: a namespace of name     *)
(* bindings, a heap of list objects (every list display allocates a new    *)
(* object, the name is bound to a reference), and a position in the module *)
(* body.  The module may be executed several times in one process, either  *)
(* in a new namespace or in the namespace an earlier execution left.       *)
(* The directories the declaration names live in a filesystem that changes *)
(* independently of the module.                                            *)
(***************************************************************************)
EXTENDS Integers, Sequences, FiniteSets, TLC

VARIABLES
    pc,        \* number of statements of the module body already executed
    status,    \* "idle" | "running" | "done" | "error"
    ns,        \* the namespace the module body executes in: name -> binding
    heap,      \* list objects, addressed by their index
    returned,  \* one entry per finished load: the namespace handed to the
               \* generator and the configuration it held at that moment
    invocations, \* number of executions of the module started so far
    reloaded,  \* the current execution runs in the namespace of the last one
    fs         \* the directories that currently exist

vars == <<pc, status, ns, heap, returned, invocations, reloaded, fs>>

\* Number of times the module is executed in one process.
MaxLoads == 3

\* The names conf.py binds, in statement order.
Names == {"project", "author", "extensions", "myst_enable_extensions",
          "templates_path", "html_static_path", "html_theme"}

\* The module body has seven statements.
NStmts == 7

\* The directories conf.py refers to.
Paths == {"_templates", "_static"}

Unbound == [tag |-> "unbound", s |-> "", ref |-> 0]

StrValue(s) == [tag |-> "str", s |-> s, ref |-> 0]

ListRef(r) == [tag |-> "list", s |-> "", ref |-> r]

EmptyNamespace == [n \in Names |-> Unbound]

\* name = "literal": binds the name to the string, whatever it was bound to.
AssignStr(name, s) ==
    /\ ns' = [ns EXCEPT ![name] = StrValue(s)]
    /\ heap' = heap

\* An augmented assignment in place of the plain one: a list the name is
\* already bound to is extended instead of replaced.
AssignListInPlace(name, items) ==
    IF ns[name].tag = "list"
    THEN /\ heap' = [heap EXCEPT ![ns[name].ref] = @ \o items]
         /\ ns' = ns
    ELSE /\ heap' = Append(heap, items)
         /\ ns' = [ns EXCEPT ![name] = ListRef(Len(heap) + 1)]

\* name = [ ... ]: the list display allocates a new list object and the name
\* is bound to it; an object the name was bound to before is left as it is.
AssignList(name, items) ==
    /\ heap' = Append(heap, items)
    /\ ns' = [ns EXCEPT ![name] = ListRef(Len(heap) + 1)]

\* One statement of the module body, at position k.
Step(k, effect) ==
    /\ status = "running"
    /\ pc = k
    /\ effect
    /\ pc' = k + 1
    /\ UNCHANGED <<status, returned, invocations, reloaded, fs>>

project == Step(0, AssignStr("project", "hsemulator"))

author == Step(1, AssignStr("author", "Morgan West"))

extensions_dup == Step(2, AssignList("extensions", <<"myst_parser", "myst_parser">>))

extensions == Step(2, AssignList("extensions", <<"myst_parser">>))

myst_enable_extensions == Step(3, AssignList("myst_enable_extensions", <<"colon_fence">>))

\* A declaration that insists on the template directory being there.
templates_path_checked ==
    /\ status = "running"
    /\ pc = 4
    /\ IF "_templates" \in fs
       THEN /\ AssignList("templates_path", <<"_templates">>)
            /\ pc' = 5
            /\ status' = status
       ELSE /\ status' = "error"
            /\ UNCHANGED <<pc, ns, heap>>
    /\ UNCHANGED <<returned, invocations, reloaded, fs>>

templates_path == Step(4, AssignList("templates_path", <<"_templates">>))

html_static_path == Step(5, AssignList("html_static_path", <<"_static">>))

html_theme_other == Step(6, AssignStr("html_theme", "alabaster"))

html_theme == Step(6, AssignStr("html_theme", "sphinx_rtd_theme"))

\* The elements of the list object a binding refers to.
Items(v, h) == IF v.tag = "list" THEN h[v.ref] ELSE <<>>

\* The fields of the build configuration and the conf.py name each one is
\* read from; myst_enable_extensions holds the options of myst_parser.
FieldOf ==
    [n \in Names |->
        CASE n = "project" -> "project_name"
          [] n = "author" -> "author_name"
          [] n = "extensions" -> "enabled_extensions"
          [] n = "myst_enable_extensions" -> "extension_options"
          [] n = "templates_path" -> "template_paths"
          [] n = "html_static_path" -> "static_asset_paths"
          [] n = "html_theme" -> "theme_name"]

\* The configuration a namespace holds, lists read through the heap.
BuildConfiguration(nsv, h) ==
    [present |-> {FieldOf[n] : n \in {m \in Names : nsv[m].tag # "unbound"}},
     project_name |-> nsv["project"].s,
     author_name |-> nsv["author"].s,
     enabled_extensions |-> Items(nsv["extensions"], h),
     extension_options |->
        IF nsv["myst_enable_extensions"].tag = "list"
        THEN [e \in {"myst_parser"} |-> Items(nsv["myst_enable_extensions"], h)]
        ELSE [e \in {} |-> <<>>],
     template_paths |-> Items(nsv["templates_path"], h),
     static_asset_paths |-> Items(nsv["html_static_path"], h),
     theme_name |-> nsv["html_theme"].s]

\* The module is executed in a new namespace.
Exec ==
    /\ status \in {"idle", "done"}
    /\ invocations < MaxLoads
    /\ status' = "running"
    /\ pc' = 0
    /\ ns' = EmptyNamespace
    /\ invocations' = invocations + 1
    /\ reloaded' = FALSE
    /\ UNCHANGED <<heap, returned, fs>>

\* The module is executed again in the namespace its last execution left.
Reload ==
    /\ status = "done"
    /\ invocations < MaxLoads
    /\ status' = "running"
    /\ pc' = 0
    /\ invocations' = invocations + 1
    /\ reloaded' = TRUE
    /\ UNCHANGED <<ns, heap, returned, fs>>

\* The end of the module body: the namespace goes to the generator.
Finish ==
    /\ status = "running"
    /\ pc = NStmts
    /\ status' = "done"
    /\ returned' = Append(returned, [ns |-> ns, reloaded |-> reloaded,
                                     seen |-> BuildConfiguration(ns, heap)])
    /\ UNCHANGED <<pc, ns, heap, invocations, reloaded, fs>>

\* A directory is created or removed by something other than the module.
Env ==
    /\ \E p \in Paths :
        fs' = IF p \in fs THEN fs \ {p} ELSE fs \cup {p}
    /\ UNCHANGED <<pc, status, ns, heap, returned, invocations, reloaded>>

Init ==
    /\ pc = 0
    /\ status = "idle"
    /\ ns = EmptyNamespace
    /\ heap = <<>>
    /\ returned = <<>>
    /\ invocations = 0
    /\ reloaded = FALSE
    /\ fs \in SUBSET Paths

Next ==
    \/ Exec
    \/ Reload
    \/ project
    \/ author
    \/ extensions
    \/ myst_enable_extensions
    \/ templates_path
    \/ html_static_path
    \/ html_theme
    \/ Finish
    \/ Env

Spec == Init /\ [][Next]_vars

(***************************************************************************)
(* The declaration of the repository, in the terms of the specification.   *)
(***************************************************************************)
AllFields == {"project_name", "author_name", "enabled_extensions",
              "extension_options", "template_paths", "static_asset_paths",
              "theme_name"}

RepoDeclaration ==
    [present |-> AllFields,
     project_name |-> "hsemulator",
     author_name |-> "Morgan West",
     enabled_extensions |-> <<"myst_parser">>,
     extension_options |-> [e \in {"myst_parser"} |-> <<"colon_fence">>],
     template_paths |-> <<"_templates">>,
     static_asset_paths |-> <<"_static">>,
     theme_name |-> "sphinx_rtd_theme"]

Range(q) == {q[i] : i \in DOMAIN q}

\* The validation rules of the data model, on a configuration.
Valid(c) ==
    /\ c.present = AllFields
    /\ c.project_name # ""
    /\ \A i, j \in DOMAIN c.enabled_extensions :
          c.enabled_extensions[i] = c.enabled_extensions[j] => i = j
    /\ \A i \in DOMAIN c.enabled_extensions : c.enabled_extensions[i] # ""
    /\ DOMAIN c.extension_options \subseteq Range(c.enabled_extensions)
    /\ c.theme_name # ""

\* C4: loading the repository's own declaration never ends in an error, and
\* every load that finished returned a configuration whose seven fields are
\* exactly the declared values, the sequences in the declared order.
C4_RepoDeclarationLoads ==
    /\ status # "error"
    /\ status = "done" => Len(returned) = invocations
    /\ \A i \in DOMAIN returned : returned[i].seen = RepoDeclaration

\* A first load has finished.
C4_Witness ==
    /\ status = "done"
    /\ Len(returned) = 1
    /\ returned[1].seen.theme_name = "sphinx_rtd_theme"

C10_LoadIsPure ==
    /\ [][<<pc, status, ns, heap, returned, invocations, reloaded>>' #
            <<pc, status, ns, heap, returned, invocations, reloaded>> => fs' = fs]_vars
    /\ [](status # "error")
    /\ [](\A i \in DOMAIN returned :
            BuildConfiguration(returned[i].ns, heap) = returned[i].seen)
    /\ [][\A i \in DOMAIN returned :
            /\ i \in DOMAIN returned'
            /\ returned'[i] = returned[i]]_vars

\* A load in a retained namespace has finished, after an earlier load has
\* returned, while neither directory exists.
C10_Witness ==
    /\ status = "done"
    /\ fs = {}
    /\ Len(returned) = 2
    /\ returned[2].reloaded

====
